---------------------------- MODULE Spec2Model ----------------------------
(***************************************************************************)
(* Model of the two style tasks of the repository:                         *)
(*   - Stdlib (src/stdlib.py): rewrites C standard library includes,       *)
(*     function calls and type names to their C++ forms;                   *)
(*   - ClangTidy (src/wpiformat/wpiformat/clangtidy.py): runs clang-tidy    *)
(*     and filters its output.                                             *)
(* A text is a sequence of one-character strings.  Offsets named as in the *)
(* Python code (pos, start, end) are 0-based, as in Python; s[k+1] is the  *)
(* character Python calls s[k].                                            *)
(***************************************************************************)
EXTENDS Integers, Sequences, FiniteSets, TLC

VARIABLES lines, file_changed, input, op, hdr, calls, output, printed, result

vars == <<lines, file_changed, input, op, hdr, calls, output, printed, result>>

(***************************************************************************)
(* Bounds of the model.                                                    *)
(***************************************************************************)
MaxFrags == 3

MaxIncFrags == 3

MaxFuncFrags == 3

MaxTypeFrags == 4

MaxPrefixFrags == 3

MaxLines == 4

MaxCalls == 2

(***************************************************************************)
(* Python string primitives.                                               *)
(***************************************************************************)
At(s, k) == s[k + 1]

\* s[k:k+len(w)] == w
HasAt(s, k, w) ==
    /\ k >= 0
    /\ k + Len(w) <= Len(s)
    /\ \A j \in 1..Len(w) : s[k + j] = w[j]

\* w in s
Contains(s, w) == \E k \in 0..(Len(s) - Len(w)) : HasAt(s, k, w)

Slice(s, a, b) == SubSeq(s, a + 1, b)

RECURSIVE ReplaceFrom(_, _, _, _)
ReplaceFrom(s, k, old, new) ==
    IF k >= Len(s) THEN <<>>
    ELSE IF HasAt(s, k, old) THEN new \o ReplaceFrom(s, k + Len(old), old, new)
    ELSE <<At(s, k)>> \o ReplaceFrom(s, k + 1, old, new)

\* s.replace(old, new), old non-empty: every non-overlapping occurrence,
\* left to right
Replace(s, old, new) == ReplaceFrom(s, 0, old, new)

SetMin(S) == CHOOSE x \in S : \A y \in S : x <= y

(***************************************************************************)
(* Character classes of the regular expressions of Header.__init__.        *)
(***************************************************************************)
Lower == {"a","b","c","d","e","f","g","h","i","j","k","l","m",
          "n","o","p","q","r","s","t","u","v","w","x","y","z"}

Digit == {"0","1","2","3","4","5","6","7","8","9"}

\* the characters in front of a function use
FuncBefore == {" ", ",", "("}

\* the lookbehind characters of a type use
TypeBefore == {"<", " ", ",", "("}

\* the lookahead characters of a type use
TypeAfter == {")", ",", ";", " ", "*"}

StdPrefix == <<"s","t","d",":",":">>

(***************************************************************************)
(* Header: the fields set by Header.__init__.  type_regexes holds the      *)
(* (finite) language of the alternation "|".join(type_regexes).            *)
(***************************************************************************)
Header(name, func_names, type_regexes, add_prefix) ==
    [name |-> name, func_names |-> func_names,
     type_regexes |-> type_regexes, add_prefix |-> add_prefix]

\* self.prefix
Prefix(header) == IF header.add_prefix THEN StdPrefix ELSE <<>>

TypeSubStd(header) == StdPrefix

\* self.type_sub without its \g<1>
TypeSub(header) == IF header.add_prefix THEN StdPrefix ELSE <<>>

\* regex_prefix
RegexPrefix(header) == IF header.add_prefix THEN <<>> ELSE StdPrefix

\* "func_names != []" compares a set with a list and is always true, so
\* every header gets a func_regex
HasFuncRegex(header) == TRUE

\* type_regexes != []
HasTypeRegex(header) == header.type_regexes # {}

(***************************************************************************)
(* The table built by Stdlib.run.                                          *)
(***************************************************************************)
CtypeFuncs ==
    { <<"i","s","a","l","u","m">>, <<"i","s","a","l","p","h","a">>, <<"i","s","b","l","a","n","k">>,
      <<"i","s","c","n","t","r","l">>, <<"i","s","d","i","g","i","t">>,
      <<"i","s","g","r","a","p","h">>, <<"i","s","l","o","w","e","r">>,
      <<"i","s","p","r","i","n","t">>, <<"i","s","p","u","n","c","t">>,
      <<"i","s","s","p","a","c","e">>, <<"i","s","u","p","p","e","r">>,
      <<"i","s","x","d","i","g","i","t">>, <<"t","o","l","o","w","e","r">>,
      <<"t","o","u","p","p","e","r">> }

MathFuncs ==
    { <<"c","o","s">>, <<"a","c","o","s">>, <<"c","o","s","h">>, <<"a","c","o","s","h">>,
      <<"s","i","n">>, <<"a","s","i","n">>, <<"a","s","i","n","h">>, <<"t","a","n">>,
      <<"a","t","a","n">>, <<"a","t","a","n","2">>, <<"a","t","a","n","h">>, <<"e","x","p">>,
      <<"f","r","e","x","p">>, <<"l","d","e","x","p">>, <<"l","o","g">>, <<"l","o","g","1","0">>,
      <<"i","l","o","g","b">>, <<"l","o","g","1","p">>, <<"l","o","g","2">>, <<"l","o","g","b">>,
      <<"m","o","d","f">>, <<"e","x","p","2">>, <<"e","x","p","m","1">>, <<"s","c","a","l","b","l">>,
      <<"s","c","a","l","b","l","n">>, <<"p","o","w">>, <<"s","q","r","t">>, <<"c","b","r","t">>,
      <<"h","y","p","o","t">>, <<"e","r","f">>, <<"e","r","f","c">>, <<"t","g","a","m","m","a">>,
      <<"l","g","a","m","m","a">>, <<"c","e","i","l">>, <<"f","l","o","o","r">>, <<"f","m","o","d">>,
      <<"t","r","u","n","c">>, <<"r","o","u","n","d">>, <<"l","r","o","u","n","d">>,
      <<"l","l","r","o","u","n","d">>, <<"r","i","n","t">>, <<"l","r","i","n","t">>,
      <<"l","l","r","i","n","t">>, <<"n","e","a","r","b","y","i","n","t">>,
      <<"r","e","m","a","i","n","d","e","r">>, <<"r","e","m","q","u","o">>,
      <<"c","o","p","y","s","i","g","n">>, <<"n","a","n">>, <<"n","e","x","t","a","f","t","e","r">>,
      <<"n","e","x","t","t","o","w","a","r","d">>, <<"f","d","i","m">>, <<"f","m","a","x">>,
      <<"f","m","i","n">>, <<"f","m","a">>, <<"f","p","c","l","a","s","s","i","f","y">>,
      <<"a","b","s">>, <<"f","a","b","s">>, <<"s","i","g","n","b","i","t">>,
      <<"i","s","f","i","n","i","t","e">>, <<"i","s","i","n","f">>, <<"i","s","n","a","n">>,
      <<"i","s","n","o","r","m","a","l">>, <<"i","s","g","r","e","a","t","e","r">>,
      <<"i","s","g","r","e","a","t","e","r","e","q","u","a","l">>, <<"i","s","l","e","s","s">>,
      <<"i","s","l","e","s","s","e","q","u","a","l">>,
      <<"i","s","l","e","s","s","g","r","e","a","t","e","r">>,
      <<"i","s","u","n","o","r","d","e","r","e","d">> }

SetjmpFuncs ==
    { <<"l","o","n","g","j","m","p">>, <<"s","e","t","j","m","p">> }

SignalFuncs ==
    { <<"s","i","g","n","a","l">>, <<"r","a","i","s","e">> }

StdargFuncs ==
    { <<"v","a","_","l","i","s","t">> }

StdioFuncs ==
    { <<"r","e","m","o","v","e">>, <<"r","e","n","a","m","e">>, <<"r","e","w","i","n","d">>,
      <<"t","m","p","f","i","l","e">>, <<"t","m","p","n","a","m">>, <<"f","c","l","o","s","e">>,
      <<"f","f","l","u","s","h">>, <<"f","o","p","e","n">>, <<"f","r","e","o","p","e","n">>,
      <<"f","g","e","t","c">>, <<"f","g","e","t","s">>, <<"f","p","u","t","c">>,
      <<"f","p","u","t","s">>, <<"f","r","e","a","d">>, <<"f","w","r","i","t","e">>,
      <<"f","g","e","t","p","o","s">>, <<"f","s","e","e","k">>, <<"f","s","e","t","p","o","s">>,
      <<"f","t","e","l","l">>, <<"f","e","o","f">>, <<"f","e","r","r","o","r">>,
      <<"s","e","t","b","u","f">>, <<"s","e","t","v","b","u","f">>, <<"f","p","r","i","n","t","f">>,
      <<"s","n","p","r","i","n","t","f">>, <<"s","p","r","i","n","t","f">>,
      <<"v","f","p","r","i","n","t","f">>, <<"v","p","r","i","n","t","f">>,
      <<"v","s","n","p","r","i","n","t","f">>, <<"v","s","p","r","i","n","t","f">>,
      <<"p","r","i","n","t","f">>, <<"f","s","c","a","n","f">>, <<"s","s","c","a","n","f">>,
      <<"v","f","s","c","a","n","f">>, <<"v","s","c","a","n","f">>, <<"v","s","s","c","a","n","f">>,
      <<"s","c","a","n","f">>, <<"g","e","t","c","h","a","r">>, <<"g","e","t","s">>,
      <<"p","u","t","c">>, <<"p","u","t","c","h","a","r">>, <<"p","u","t","s">>, <<"g","e","t","c">>,
      <<"u","n","g","e","t","c">>, <<"c","l","e","a","r","e","r","r">>, <<"p","e","r","r","o","r">> }

StdlibFuncs ==
    { <<"a","t","o","f">>, <<"a","t","o","i">>, <<"a","t","o","l">>, <<"a","t","o","l","l">>,
      <<"s","t","r","t","o","f">>, <<"s","t","r","t","o","l">>, <<"s","t","r","t","o","d">>,
      <<"s","t","r","t","o","l","d">>, <<"s","t","r","t","o","l","l">>,
      <<"s","t","r","t","o","u","l">>, <<"s","t","r","t","o","u","l","l">>, <<"r","a","n","d">>,
      <<"s","r","a","n","d">>, <<"f","r","e","e">>, <<"c","a","l","l","o","c">>,
      <<"m","a","l","l","o","c">>, <<"r","e","a","l","l","o","c">>, <<"a","b","o","r","t">>,
      <<"a","t","_","q","u","i","c","k","_","e","x","i","t">>,
      <<"q","u","i","c","k","_","e","x","i","t">>, <<"a","t","e","x","i","t">>, <<"e","x","i","t">>,
      <<"g","e","t","e","n","v">>, <<"s","y","s","t","e","m">>, <<"_","E","x","i","t">>,
      <<"b","s","e","a","r","c","h">>, <<"q","s","o","r","t">>, <<"l","l","a","b","s">>,
      <<"l","a","b","s">>, <<"a","b","s">>, <<"l","l","d","i","v">>, <<"l","d","i","v">>,
      <<"d","i","v">>, <<"m","b","l","e","n">>, <<"b","t","o","w","c">>, <<"w","c","t","o","m","b">>,
      <<"w","c","s","t","o","m","b","s">>, <<"m","b","s","t","o","w","c","s">> }

StringFuncs ==
    { <<"m","e","m","c","p","y">>, <<"m","e","m","c","m","p">>, <<"m","e","m","c","h","r">>,
      <<"m","e","m","m","o","v","e">>, <<"m","e","m","s","e","t">>, <<"s","t","r","c","p","y">>,
      <<"s","t","r","n","c","p","y">>, <<"s","t","r","c","a","t">>, <<"s","t","r","n","c","a","t">>,
      <<"s","t","r","c","m","p">>, <<"s","t","r","n","c","m","p">>, <<"s","t","r","c","o","l","l">>,
      <<"s","t","r","c","h","r">>, <<"s","t","r","r","c","h","r">>, <<"s","t","r","s","t","r">>,
      <<"s","t","r","x","f","r","m">>, <<"s","t","r","c","s","p","n">>,
      <<"s","t","r","r","s","p","n">>, <<"s","t","r","p","b","r","k">>, <<"s","t","r","t","o","k">>,
      <<"s","t","r","e","r","r","o","r">>, <<"s","t","r","l","e","n">> }

TimeFuncs ==
    { <<"c","l","o","c","k">>, <<"a","s","c","t","i","m","e">>, <<"c","t","i","m","e">>,
      <<"d","i","f","f","t","i","m","e">>, <<"g","m","t","i","m","e">>,
      <<"l","o","c","a","l","t","i","m","e">>, <<"m","k","t","i","m","e">>,
      <<"s","t","r","f","t","i","m","e">>, <<"t","i","m","e">> }

\* ["jmp_buf"]
SetjmpTypes == {<<"j","m","p","_","b","u","f">>}

\* ["sig_atomic_t"]
SignalTypes == {<<"s","i","g","_","a","t","o","m","i","c","_","t">>}

\* ["(ptrdiff|max_align|nullptr)_t"]
StddefTypes == {p \o <<"_","t">> : p \in {<<"p","t","r","d","i","f","f">>, <<"m","a","x","_","a","l","i","g","n">>, <<"n","u","l","l","p","t","r">>}}

\* ["((u?int((_fast|_least)?(8|16|32|64)|max|ptr)|size)_t)"]
StdintTypes ==
    LET width == {<<"8">>, <<"1","6">>, <<"3","2">>, <<"6","4">>}
        kind  == {f \o w : f \in {<<>>, <<"_","f","a","s","t">>, <<"_","l","e","a","s","t">>}, w \in width}
                     \cup {<<"m","a","x">>, <<"p","t","r">>}
        ints  == {u \o <<"i","n","t">> \o k : u \in {<<>>, <<"u">>}, k \in kind}
    IN {b \o <<"_","t">> : b \in ints \cup {<<"s","i","z","e">>}}

\* ["FILE", "fpos_t"]
StdioTypes == {<<"F","I","L","E">>, <<"f","p","o","s","_","t">>}

\* ["(l|ll)?div_t"]
StdlibTypes == {p \o <<"d","i","v","_","t">> : p \in {<<>>, <<"l">>, <<"l","l">>}}

\* ["(clock|time)_t"]
TimeTypes == {p \o <<"_","t">> : p \in {<<"c","l","o","c","k">>, <<"t","i","m","e">>}}

headers ==
    << Header(<<"a","s","s","e","r","t">>, {}, {}, TRUE),
       Header(<<"c","t","y","p","e">>, CtypeFuncs, {}, TRUE),
       Header(<<"e","r","r","n","o">>, {}, {}, TRUE),
       Header(<<"f","l","o","a","t">>, {}, {}, TRUE),
       Header(<<"l","i","m","i","t","s">>, {}, {}, TRUE),
       Header(<<"m","a","t","h">>, MathFuncs, {}, TRUE),
       Header(<<"s","e","t","j","m","p">>, SetjmpFuncs, SetjmpTypes, TRUE),
       Header(<<"s","i","g","n","a","l">>, SignalFuncs, SignalTypes, FALSE),
       Header(<<"s","t","d","a","r","g">>, StdargFuncs, {}, TRUE),
       Header(<<"s","t","d","d","e","f">>, {}, StddefTypes, TRUE),
       Header(<<"s","t","d","i","n","t">>, {}, StdintTypes, FALSE),
       Header(<<"s","t","d","i","o">>, StdioFuncs, StdioTypes, TRUE),
       Header(<<"s","t","d","l","i","b">>, StdlibFuncs, StdlibTypes, TRUE),
       Header(<<"s","t","r","i","n","g">>, StringFuncs, {}, TRUE),
       Header(<<"t","i","m","e">>, TimeFuncs, TimeTypes, TRUE) >>

(***************************************************************************)
(* func_regex: one of space, comma, open parenthesis; regex_prefix; a      *)
(* lowercase letter and then lowercase letters and digits (group 1); an    *)
(* open parenthesis.                                                       *)
(***************************************************************************)
\* end of the longest run of [a-z0-9] that starts at offset j
RECURSIVE IdentEnd(_, _)
IdentEnd(s, j) ==
    IF j >= Len(s) \/ At(s, j) \notin (Lower \cup Digit) THEN j
    ELSE IdentEnd(s, j + 1)

\* the regex matches with match.start() = i
FuncMatchAt(header, s, i) ==
    LET start1 == i + 1 + Len(RegexPrefix(header))
    IN /\ i < Len(s)
       /\ At(s, i) \in FuncBefore
       /\ HasAt(s, i + 1, RegexPrefix(header))
       /\ start1 < Len(s)
       /\ At(s, start1) \in Lower
       /\ IdentEnd(s, start1) < Len(s)
       /\ At(s, IdentEnd(s, start1)) = "("

\* header.func_regex.search(lines, pos): match.start() of the leftmost match
\* at or after pos, -1 for None
FuncSearch(header, s, pos) ==
    LET M == {i \in pos..(Len(s) - 1) : FuncMatchAt(header, s, i)}
    IN IF M = {} THEN -1 ELSE SetMin(M)

OwnedAlways(header, name) == TRUE

\* match.group(1) in header.func_names
Owned(header, name) == name \in header.func_names

RECURSIVE FuncLoop(_, _, _, _)
FuncLoop(header, text, pos, lines_changed) ==
    IF ~(pos < Len(text)) THEN <<text, lines_changed>>
    ELSE LET old_length == Len(text)
             m == FuncSearch(header, text, pos)
         IN IF m = -1 THEN <<text, lines_changed>>
            ELSE LET start1 == m + 1 + Len(RegexPrefix(header))
                     end1   == IdentEnd(text, start1)
                     group1 == Slice(text, start1, end1)
                     newpos == start1 + Len(Prefix(header)) + Len(group1)
                     newtext ==
                         IF Owned(header, group1)
                         THEN Slice(text, 0, start1) \o Prefix(header) \o group1
                                  \o Slice(text, end1, Len(text))
                         ELSE text
                     newchanged ==
                         IF /\ Owned(header, group1)
                            /\ ~lines_changed
                            /\ old_length # Len(newtext)
                         THEN TRUE
                         ELSE lines_changed
                 IN FuncLoop(header, newtext, newpos, newchanged)

\* Stdlib.func_substitute: <<lines, lines_changed>>
func_substitute(header, text) == FuncLoop(header, text, 0, FALSE)

(***************************************************************************)
(* type_regex: lookbehind for one of < space comma open parenthesis;       *)
(* regex_prefix; one of the types (group 1); lookahead for one of close    *)
(* parenthesis, comma, semicolon, space, asterisks.                        *)
(***************************************************************************)
LookBehindOrStart(s, i) == i = 0 \/ At(s, i - 1) \in TypeBefore \cup {"\n"}

LookBehind(s, i) == i >= 1 /\ At(s, i - 1) \in TypeBefore

LookAhead(s, e) == e < Len(s) /\ At(s, e) \in TypeAfter

\* the types the regex can match at offset i (at most one: no type character
\* is a character of the lookahead)
TypeMatches(header, s, i) ==
    IF LookBehind(s, i) /\ HasAt(s, i, RegexPrefix(header))
    THEN {t \in header.type_regexes :
             /\ HasAt(s, i + Len(RegexPrefix(header)), t)
             /\ LookAhead(s, i + Len(RegexPrefix(header)) + Len(t))}
    ELSE {}

\* the offsets at or after i where the regex matches
TypeMatchOffsets(header, s, i) ==
    {j \in i..(Len(s) - 1) : TypeMatches(header, s, j) # {}}

\* the substitution of the matches found from offset i on, left to right,
\* each search starting where the previous match ended
RECURSIVE TypeSubFrom(_, _, _)
TypeSubFrom(header, s, i) ==
    LET M == TypeMatchOffsets(header, s, i)
    IN IF M = {} THEN Slice(s, i, Len(s))
       ELSE LET j == SetMin(M)
                t == CHOOSE t \in TypeMatches(header, s, j) : TRUE
            IN Slice(s, i, j) \o TypeSub(header) \o t
                   \o TypeSubFrom(header, s, j + Len(RegexPrefix(header)) + Len(t))

\* header.type_regex.sub(header.type_sub, lines)
type_sub(header, s) == TypeSubFrom(header, s, 0)

(***************************************************************************)
(* Stdlib.run                                                              *)
(***************************************************************************)
Include(spine) == <<"#","i","n","c","l","u","d","e"," ","<">> \o spine \o <<">">>

\* before
IncludeBefore(header) ==
    IF header.add_prefix THEN header.name \o <<".","h">> ELSE <<"c">> \o header.name

IncludeAfterSame(header) == IncludeBefore(header)

\* after
IncludeAfter(header) ==
    IF header.add_prefix THEN <<"c">> \o header.name ELSE header.name \o <<".","h">>

\* The steps of one iteration of "for header in headers" take and give
\* st = <<lines, file_changed>>; a step that calls a function gives the set
\* of its one result, x \in {e} naming the value of e.
\*
\* if "#include <" + before + ">" in lines: file_changed = True and
\* lines = lines.replace(...)
IncludeStep(header, st) ==
    IF Contains(st[1], Include(IncludeBefore(header)))
    THEN <<Replace(st[1], Include(IncludeBefore(header)), Include(IncludeAfter(header))),
           TRUE>>
    ELSE st

FuncStepNoFlag(header, st) ==
    IF HasFuncRegex(header)
    THEN {<<fs[1], st[2]>> : fs \in {func_substitute(header, st[1])}}
    ELSE {st}

\* if header.func_regex: (lines, changed) = self.func_substitute(header,
\* lines); file_changed |= changed
FuncStep(header, st) ==
    IF HasFuncRegex(header)
    THEN {<<fs[1], st[2] \/ fs[2]>> : fs \in {func_substitute(header, st[1])}}
    ELSE {st}

\* if header.type_regex: lines = header.type_regex.sub(...); file_changed
\* becomes True if it was not and the length of lines changed
TypeStep(header, st) ==
    IF HasTypeRegex(header)
    THEN {<<l, (IF ~st[2] /\ Len(st[1]) # Len(l) THEN TRUE ELSE st[2])>> :
             l \in {type_sub(header, st[1])}}
    ELSE {st}

\* one iteration of "for header in headers" from st = <<lines, file_changed>>
\* (the set of its one result)
RunHeader(header, st) ==
    UNION {TypeStep(header, s2) : s2 \in UNION {FuncStep(header, s1) : s1 \in {IncludeStep(header, st)}}}

RECURSIVE RunLoop(_, _)
RunLoop(k, st) ==
    IF k > Len(headers) THEN st
    ELSE CHOOSE r \in {RunLoop(k + 1, s) : s \in RunHeader(headers[k], st)} : TRUE

\* Stdlib.run(name, lines): <<lines, file_changed>>
run(text) == RunLoop(1, <<text, FALSE>>)

(***************************************************************************)
(* Input texts: concatenations of at most n fragments.                     *)
(***************************************************************************)
RECURSIVE Texts(_, _)
Texts(frags, n) ==
    IF n = 0 THEN {<<>>}
    ELSE LET T == Texts(frags, n - 1)
         IN T \cup {t \o f : t \in T, f \in frags}

Frags ==
    { <<" ">>, <<"f","l","o","o","r","(">>, <<"F","I","L","E">>, <<"s","t","d",":",":","s","i","z","e","_","t">>, <<"#","i","n","c","l","u","d","e"," ","<","s","t","d","i","o",".","h",">">>,
      <<"#","i","n","c","l","u","d","e"," ","<","c","s","t","d","i","n","t",">">> }

IncFrags ==
    { <<"\n">>, <<"#","i","n","c","l","u","d","e"," ","<","s","t","d","i","o",".","h",">">>, <<"#","i","n","c","l","u","d","e"," ","<","c","s","t","d","i","n","t",">">>, <<"#","i","n","c","l","u","d","e"," ","<","c","s","i","g","n","a","l",">">>,
      <<"#","i","n","c","l","u","d","e"," ","<","a","s","s","e","r","t",".","h",">">>, <<"#","i","n","c","l","u","d","e"," ","<","s","t","d","i","n","t",".","h",">">> }

FuncFrags ==
    { <<" ">>, <<"(">>, <<"s","t","d",":",":">>, <<"m","y">>, <<"f","l","o","o","r","(">>, <<"f","o","o","(">>, <<"p","r","i","n","t","f","(">>, <<"s","i","g","n","a","l","(">> }

TypeFrags ==
    { <<" ">>, <<"<">>, <<">">>, <<"\n">>, <<";">>, <<"*">>, <<"F","I","L","E">>, <<"s","i","z","e","_","t">>, <<"s","t","d",":",":","s","i","z","e","_","t">> }

PrefixFrags ==
    { <<" ">>, <<"\n">>, <<"s","t","d",":",":","s","i","g","_","a","t","o","m","i","c","_","t">>, <<"s","i","g","_","a","t","o","m","i","c","_","t">>, <<"s","t","d",":",":","i","n","t","6","4","_","t">>,
      <<"i","n","t","6","4","_","t">>, <<" ","x",";">>, <<" ","y",";">> }

(***************************************************************************)
(* State machine of Stdlib.                                                *)
(***************************************************************************)
StdlibInit(texts) ==
    /\ lines \in texts
    /\ input = <<>>
    /\ file_changed = FALSE
    /\ op = "init"
    /\ hdr = 0
    /\ calls = 0
    /\ output = <<>>
    /\ printed = <<>>
    /\ result = "none"

\* a caller runs the task on the current text (again on its own output)
Run ==
    /\ op \in {"init", "run"}
    /\ calls < MaxCalls
    /\ LET r == run(lines)
       IN /\ lines' = r[1]
          /\ file_changed' = r[2]
    /\ input' = lines
    /\ op' = "run"
    /\ calls' = calls + 1
    /\ UNCHANGED <<hdr, output, printed, result>>

\* func_substitute of one header applied to the text
FuncSubstitute ==
    /\ op = "init"
    /\ \E k \in 1..Len(headers) :
         /\ HasFuncRegex(headers[k])
         /\ LET r == func_substitute(headers[k], lines)
            IN /\ lines' = r[1]
               /\ file_changed' = r[2]
         /\ hdr' = k
    /\ input' = lines
    /\ op' = "func"
    /\ UNCHANGED <<calls, output, printed, result>>

\* type_regex.sub of one header applied to the text
TypeSubstitute ==
    /\ op = "init"
    /\ \E k \in 1..Len(headers) :
         /\ HasTypeRegex(headers[k])
         /\ lines' = type_sub(headers[k], lines)
         /\ hdr' = k
    /\ input' = lines
    /\ op' = "type"
    /\ UNCHANGED <<file_changed, calls, output, printed, result>>

Init == StdlibInit(Texts(Frags, MaxFrags))

Next == Run

Spec == Init /\ [][Next]_vars

InitInc == StdlibInit(Texts(IncFrags, MaxIncFrags))

NextInc == Run

SpecInc == InitInc /\ [][NextInc]_vars

InitFunc == StdlibInit(Texts(FuncFrags, MaxFuncFrags))

NextFunc == Run \/ FuncSubstitute

SpecFunc == InitFunc /\ [][NextFunc]_vars

InitType == StdlibInit(Texts(TypeFrags, MaxTypeFrags))

NextType == TypeSubstitute

SpecType == InitType /\ [][NextType]_vars

InitPrefix == StdlibInit(Texts(PrefixFrags, MaxPrefixFrags))

NextPrefix == Run

SpecPrefix == InitPrefix /\ [][NextPrefix]_vars

(***************************************************************************)
(* ClangTidy.run_standalone.  A line of the tool's output is modelled by   *)
(* what the filters read of it: whether it is empty, whether it is made of *)
(* whitespace only, and which of the three marker substrings it contains.  *)
(***************************************************************************)
\* " generated."
Generated == "generated"

\* "Error while processing"
ErrorWhileProcessing == "error_while_processing"

\* "file not found [clang-diagnostic-error]"
FileNotFound == "file_not_found"

Markers == {Generated, ErrorWhileProcessing, FileNotFound}

\* kind: "empty" (""), "space" (whitespace only) or "text"
Line(kind, marks) == [kind |-> kind, marks |-> marks]

OutputLines ==
    {Line("empty", {}), Line("space", {})} \cup {Line("text", m) : m \in SUBSET Markers}

\* the tool's outputs: sequences of at most n lines
RECURSIVE Outputs(_)
Outputs(n) ==
    IF n = 0 THEN {<<>>}
    ELSE LET O == Outputs(n - 1)
         IN O \cup {o \o <<l>> : o \in O, l \in OutputLines}

\* output.rstrip().split("\n"): the trailing lines of whitespace are
\* stripped; the text that is left has at least one (possibly empty) line
RECURSIVE RStripSplit(_)
RStripSplit(out) ==
    IF out = <<>> THEN <<Line("empty", {})>>
    ELSE IF out[Len(out)].kind \in {"empty", "space"}
         THEN RStripSplit(SubSeq(out, 1, Len(out) - 1))
         ELSE out

\* if l
Truthy(l) == l.kind # "empty"

NotGenerated(l) == Generated \notin l.marks

NotErrorWhileProcessing(l) == ErrorWhileProcessing \notin l.marks

\* the loop over iterlines from its i-th line on; acc is filtered_lines.
\* next(iterlines) on the exhausted iterator raises StopIteration, which
\* nothing in run_standalone catches.
RECURSIVE SkipNotFound(_, _, _)
SkipNotFound(ls, i, acc) ==
    IF i > Len(ls) THEN [raised |-> FALSE, lines |-> acc]
    ELSE IF FileNotFound \in ls[i].marks
         THEN IF i + 2 > Len(ls)
              THEN [raised |-> TRUE, lines |-> acc]
              ELSE SkipNotFound(ls, i + 3, acc)
         ELSE SkipNotFound(ls, i + 1, Append(acc, ls[i]))

\* the banner line "== clang-tidy {name} =="
Banner == Line("text", {})

\* run_standalone on the tool's output out: what it prints and what it
\* returns ("True", "False") or raises ("StopIteration")
run_standalone(out) ==
    LET l0 == SelectSeq(RStripSplit(out), Truthy)
        l1 == SelectSeq(l0, NotGenerated)
        l2 == SelectSeq(l1, NotErrorWhileProcessing)
        f  == SkipNotFound(l2, 1, <<>>)
    IN IF f.raised THEN [printed |-> <<>>, result |-> "StopIteration"]
       ELSE IF f.lines # <<>>
            THEN [printed |-> <<Banner>> \o f.lines, result |-> "False"]
            ELSE [printed |-> <<>>, result |-> "True"]

InitTidy ==
    /\ output \in Outputs(MaxLines)
    /\ printed = <<>>
    /\ result = "none"
    /\ lines = <<>>
    /\ input = <<>>
    /\ file_changed = FALSE
    /\ op = "init"
    /\ hdr = 0
    /\ calls = 0

RunStandalone ==
    /\ result = "none"
    /\ LET r == run_standalone(output)
       IN /\ printed' = r.printed
          /\ result' = r.result
    /\ UNCHANGED <<output, lines, input, file_changed, op, hdr, calls>>

NextTidy == RunStandalone

SpecTidy == InitTidy /\ [][NextTidy]_vars

(***************************************************************************)
(* Properties.                                                             *)
(***************************************************************************)
\* the number of offsets of s where w occurs
NumOcc(s, w) == Cardinality({k \in 0..(Len(s) - Len(w)) : HasAt(s, k, w)})

AssertH == Include(<<"a","s","s","e","r","t",".","h">>)

StdintH == Include(<<"s","t","d","i","n","t",".","h">>)

\* C1: Stdlib.run is idempotent: a second run on the output of a run
\* returns its input and reports no change.
RunIdempotent ==
    (op = "run" /\ calls >= 2) => (lines = input /\ ~file_changed)

\* C2: the changed flag of Stdlib.run is exact: it is True if and only if the
\* returned text differs from the text passed in.
ChangedFlagExact ==
    op = "run" => (file_changed <=> lines # input)

ChangedFlagWitness ==
    /\ op = "run"
    /\ file_changed
    /\ lines # input
    /\ Contains(input, <<" ","f","l","o","o","r","(">>)

UnprefixedTypes ==
    UNION {headers[k].type_regexes : k \in {j \in 1..Len(headers) : ~headers[j].add_prefix}}

\* C4 as stated: a run turns `std::sig_atomic_t x;` into `sig_atomic_t x;`
\* and leaves `int64_t y;` as it is.
PrefixRemovedEverywhere ==
    (op = "run" /\ calls = 1) =>
        /\ input = <<"s","t","d",":",":","s","i","g","_","a","t","o","m","i","c","_","t"," ","x",";">> => lines = <<"s","i","g","_","a","t","o","m","i","c","_","t"," ","x",";">>
        /\ input = <<"i","n","t","6","4","_","t"," ","y",";">> => lines = <<"i","n","t","6","4","_","t"," ","y",";">>

\* C4, amended: a run removes the std:: of a type owned by the signal and
\* stdint rules where the qualified type stands between a character in front
\* (one of < space comma open parenthesis) and a character behind (one of
\* close parenthesis, comma, semicolon, space, asterisk): no such use is left
\* in the output, ` std::sig_atomic_t x;` becomes ` sig_atomic_t x;`, while
\* `std::sig_atomic_t x;` at the very start of the text is returned
\* unchanged; and no type of these rules gains a std::, `int64_t y;` stays
\* `int64_t y;`.
PrefixRemovedAfterBoundary ==
    op = "run" =>
        /\ \A k \in 1..Len(headers) :
               ~headers[k].add_prefix => TypeMatchOffsets(headers[k], lines, 0) = {}
        /\ \A t \in UnprefixedTypes :
               NumOcc(lines, StdPrefix \o t) <= NumOcc(input, StdPrefix \o t)
        /\ input = <<" ","s","t","d",":",":","s","i","g","_","a","t","o","m","i","c","_","t"," ","x",";">> => lines = <<" ","s","i","g","_","a","t","o","m","i","c","_","t"," ","x",";">>
        /\ input = <<"s","t","d",":",":","s","i","g","_","a","t","o","m","i","c","_","t"," ","x",";">> => lines = input
        /\ input = <<"i","n","t","6","4","_","t"," ","y",";">> => lines = input
        /\ input = <<" ","i","n","t","6","4","_","t"," ","y",";">> => lines = input

PrefixRemovedWitness ==
    /\ op = "run"
    /\ input = <<" ","s","t","d",":",":","s","i","g","_","a","t","o","m","i","c","_","t"," ","x",";">>
    /\ lines = <<" ","s","i","g","_","a","t","o","m","i","c","_","t"," ","x",";">>
    /\ file_changed

\* b from offset j on is a from offset i on with the prefix of the header
\* inserted only directly in front of calls of names the header owns that
\* follow a space, a comma or an open parenthesis
RECURSIVE PrefixesInserted(_, _, _, _, _)
PrefixesInserted(header, a, i, b, j) ==
    IF i >= Len(a) THEN j = Len(b)
    ELSE \/ /\ j < Len(b)
            /\ At(a, i) = At(b, j)
            /\ PrefixesInserted(header, a, i + 1, b, j + 1)
         \/ /\ Prefix(header) # <<>>
            /\ HasAt(b, j, Prefix(header))
            /\ i >= 1
            /\ At(a, i - 1) \in {" ", ",", "("}
            /\ At(a, i) \in Lower
            /\ LET e == IdentEnd(a, i)
                   n == Slice(a, i, e)
               IN /\ n \in header.func_names
                  /\ e < Len(a)
                  /\ At(a, e) = "("
                  /\ HasAt(b, j + Len(Prefix(header)), n)
                  /\ PrefixesInserted(header, a, e, b, j + Len(Prefix(header)) + Len(n))

\* the names owned by the rules that add the prefix, as one rule
AddedFuncs ==
    Header(<<>>,
           UNION {headers[k].func_names : k \in {j \in 1..Len(headers) : headers[j].add_prefix}},
           {}, TRUE)

\* C5: func_substitute of a rule changes the text only by inserting the
\* rule's prefix directly in front of a call of a name the rule owns; a run
\* on a text without includes and types inserts std:: only in front of calls
\* of owned names, so `foo(` and `myfloor(` come out as they went in.
FunctionRewriteFrame ==
    /\ op = "func" => PrefixesInserted(headers[hdr], input, 0, lines, 0)
    /\ op = "run" =>
           /\ PrefixesInserted(AddedFuncs, input, 0, lines, 0)
           /\ NumOcc(lines, <<"f","o","o","(">>) = NumOcc(input, <<"f","o","o","(">>)
           /\ NumOcc(lines, <<"s","t","d",":",":","f","o","o","(">>) = NumOcc(input, <<"s","t","d",":",":","f","o","o","(">>)
           /\ NumOcc(lines, <<"m","y","f","l","o","o","r","(">>) = NumOcc(input, <<"m","y","f","l","o","o","r","(">>)
           /\ NumOcc(lines, <<"m","y","s","t","d",":",":","f","l","o","o","r","(">>) = NumOcc(input, <<"m","y","s","t","d",":",":","f","l","o","o","r","(">>)

FunctionRewriteWitness ==
    /\ op = "func"
    /\ Contains(input, <<"f","o","o","(">>)
    /\ lines # input

\* the output line i contains a marker or is one of the two output lines
\* directly behind a line with the file-not-found marker
InFilteredClass(out, i) ==
    \/ out[i].marks # {}
    \/ \E j \in {i - 1, i - 2} : j >= 1 /\ FileNotFound \in out[j].marks

\* the non-empty lines of the output, the whitespace at its end left aside
NonEmptyLines(out) ==
    {i \in 1..Len(out) : Truthy(out[i]) /\ \E j \in i..Len(out) : out[j].kind = "text"}

\* C6, for the calls that return: run_standalone returns True if and only
\* if every non-empty line of the tool's output contains one of the three
\* markers or is one of the two output lines directly behind a line with the
\* file-not-found marker; a line of no such class is printed and makes the
\* result False.
FiltersIndependent ==
    result \in {"True", "False"} =>
        /\ result = "True" <=>
               \A i \in NonEmptyLines(output) : InFilteredClass(output, i)
        /\ \A i \in NonEmptyLines(output) :
               ~InFilteredClass(output, i) =>
                   /\ result = "False"
                   /\ \E p \in 2..Len(printed) : printed[p] = output[i]

\* C7: run_standalone returns True or False for every output of the tool
\* and raises no exception.
NoExceptionRaised ==
    result # "StopIteration"

\* C8: every `#include <stdint.h>` and every `#include <assert.h>` of the
\* input of a run is still in its output.
ExceptionsKept ==
    op = "run" =>
        /\ NumOcc(lines, StdintH) >= NumOcc(input, StdintH)
        /\ NumOcc(lines, AssertH) >= NumOcc(input, AssertH)

\* C9: after func_substitute of a rule that adds the prefix, no call of a
\* name the rule owns is left unprefixed behind a space, a comma or an open
\* parenthesis: every such call of the input was found and rewritten.
AllOwnedCallsPrefixed ==
    (op = "func" /\ headers[hdr].add_prefix) =>
        \A i \in 0..(Len(lines) - 1) :
            /\ At(lines, i) \in {" ", ",", "("}
            /\ i + 1 < Len(lines)
            /\ At(lines, i + 1) \in Lower
            /\ IdentEnd(lines, i + 1) < Len(lines)
            /\ At(lines, IdentEnd(lines, i + 1)) = "("
            => Slice(lines, i + 1, IdentEnd(lines, i + 1)) \notin headers[hdr].func_names

\* the offsets of s where a type of the rule (behind std:: for a rule that
\* removes the prefix) stands between a character in front and a character
\* behind
BoundedTypeUses(header, s) ==
    {i \in 1..(Len(s) - 1) :
        /\ At(s, i - 1) \in {"<", " ", ",", "("}
        /\ \E t \in header.type_regexes :
               LET w == IF header.add_prefix THEN t ELSE <<"s","t","d",":",":">> \o t
               IN /\ HasAt(s, i, w)
                  /\ i + Len(w) < Len(s)
                  /\ At(s, i + Len(w)) \in {")", ",", ";", " ", "*"}}

\* b is a with std:: inserted at exactly the offsets P
InsertedAt(a, b, P) ==
    /\ Len(b) = Len(a) + Len(<<"s","t","d",":",":">>) * Cardinality(P)
    /\ \A k \in 0..(Len(a) - 1) :
           At(b, k + Len(<<"s","t","d",":",":">>) * Cardinality({p \in P : p <= k})) = At(a, k)
    /\ \A p \in P :
           HasAt(b, p + Len(<<"s","t","d",":",":">>) * Cardinality({q \in P : q < p}), <<"s","t","d",":",":">>)

\* b is a with the std:: at exactly the offsets P deleted
DeletedAt(a, b, P) ==
    LET D == {d \in 0..(Len(a) - 1) : \E p \in P : p <= d /\ d < p + Len(<<"s","t","d",":",":">>)}
    IN /\ Len(b) = Len(a) - Cardinality(D)
       /\ \A k \in (0..(Len(a) - 1)) \ D :
              At(b, k - Cardinality({d \in D : d < k})) = At(a, k)

\* C10: the type rewrite of a rule rewrites a use of an owned type if and
\* only if the use stands directly behind one of < space comma open
\* parenthesis and directly in front of one of close parenthesis, comma,
\* semicolon, space, asterisk; a use at the start of the text or of a line
\* is not rewritten.
TypeRewriteBoundaries ==
    op = "type" =>
        IF headers[hdr].add_prefix
        THEN InsertedAt(input, lines, BoundedTypeUses(headers[hdr], input))
        ELSE DeletedAt(input, lines, BoundedTypeUses(headers[hdr], input))

TypeRewriteWitness ==
    /\ op = "type"
    /\ input = <<" ","F","I","L","E"," ","*">>
    /\ lines = <<" ","s","t","d",":",":","F","I","L","E"," ","*">>

=============================================================================
